---- MODULE Spec2Model ----
(***************************************************************************)
(* Model of esp::sim::ReplayBatchRenderer                                  *)
(* (src/esp/sim/ReplayBatchRenderer.cpp): N replay environments, each with *)
(* its own gfx::replay::Player, scene graph(s) and sensors, sharing one    *)
(* ResourceManager and one SceneManager.                                   *)
(*                                                                         *)
(* The renderer itself is modelled from ReplayBatchRenderer.cpp.  Its      *)
(* collaborators (replay::Player, scene::SceneManager, SensorFactory,      *)
(* assets::ResourceManager) live in other files of the repository; they    *)
(* are modelled at their interface, as the design document describes them. *)
(* Creation of the GL context and of gfx::Renderer (lines 59-81) touches   *)
(* no state the operations below read and is left out.                     *)
(***************************************************************************)
EXTENDS Integers, Sequences, FiniteSets, TLC

VARIABLES
  phase,             \* lifetime of the object: "unconstructed", "alive",
                     \* "destructing", "destroyed", or "aborted" after a
                     \* failed CORRADE_INTERNAL_ASSERT
  config_,           \* ReplayBatchRendererConfiguration copied at line 21
  envs_,             \* std::vector<EnvironmentRecord>, as a sequence:
                     \* environment index i is envs_[i + 1]
  sceneManager_,     \* scene::SceneManager: its scene graphs, as a sequence:
                     \* scene id g is sceneManager_[g + 1]
  nodes,             \* all scene nodes (arena): node id n is nodes[n]
  sensors,           \* node ids that currently carry a live sensor object
  resourceManager_,  \* assets::ResourceManager: [alive, lightSetup]
  dtorEnvIdx,        \* envIdx of the destructor's loop (line 86)
  lastCall           \* the most recent call that changed the state or did
                     \* not return normally, and how it ended

vars == <<phase, config_, envs_, sceneManager_, nodes, sensors,
          resourceManager_, dtorEnvIdx, lastCall>>

(***************************************************************************)
(* Bounds                                                                  *)
(***************************************************************************)
MaxEnvironments == 2

\* Value of ID_UNDEFINED (esp/core): no scene graph has this id.
ID_UNDEFINED == -1

(***************************************************************************)
(* Values                                                                  *)
(***************************************************************************)
\* Sensor uuids, listed in std::string (lexicographic) order: the order in
\* which std::map<std::string, ...> iterates.
SensorUuids == <<"cam0", "cam1">>

\* cfg.sensorSpecifications: sequences of sensor uuids.  The second lists
\* its sensors in the reverse of the map's name order.
SensorSpecChoices == { <<>>, <<"cam0">>, <<"cam1", "cam0">> }

Prefixes == {"", "agent_"}

\* Mn::Vector3 and Mn::Quaternion values
Vec(x) == <<x, 0, 0>>
IdentityRotation == <<0, 0, 0, 1>>
Rot(x) == <<x, 0, 0, 0>>

Xform(t, r) == [translation |-> t, rotation |-> r]

\* A node as Magnum creates it: identity transformation.  parent is the
\* parent's node id, 0 for the root node of a graph.
NewNode(graph, parent) ==
  [graph |-> graph, parent |-> parent,
   translation |-> Vec(0), rotation |-> IdentityRotation]

\* gfx::replay::Keyframe, the fields the renderer's operations depend on:
\*   creations      render asset instance creations, in order; each has an
\*                  instance key and says whether it is a semantic mesh
\*   lights         the light setup, or "none" when the keyframe has none
\*   userTransforms name -> (translation, rotation)
Creation(key, semantic) == [instanceKey |-> key, isSemantic |-> semantic]

KeyframeA ==
  [creations |-> <<Creation(1, FALSE), Creation(2, TRUE)>>,
   lights |-> "lightsA",
   userTransforms |-> [n \in {"cam0", "cam1"} |->
        IF n = "cam0" THEN Xform(Vec(1), Rot(1)) ELSE Xform(Vec(2), Rot(1))]]

\* "agent_cam0" is recorded, "agent_cam1" is not; "cam1" is, "cam0" is not.
KeyframeB ==
  [creations |-> <<Creation(3, FALSE)>>,
   lights |-> "none",
   userTransforms |-> [n \in {"agent_cam0", "cam1"} |->
        IF n = "agent_cam0" THEN Xform(Vec(3), Rot(1))
                            ELSE Xform(Vec(4), IdentityRotation)]]

\* No creation and no user transform, but a light setup of its own.
KeyframeC ==
  [creations |-> <<>>,
   lights |-> "lightsC",
   userTransforms |-> [n \in {} |-> Xform(Vec(0), IdentityRotation)]]

Keyframes == {KeyframeA, KeyframeB, KeyframeC}

\* A serialized keyframe is a JSON document whose root object has the
\* member "keyframe"; anything else does not parse.
Serialized(kf) == [root |-> "keyframe", body |-> kf]
MalformedKeyframe == [root |-> "garbage"]
SerKeyframes == {Serialized(kf) : kf \in Keyframes} \cup {MalformedKeyframe}

(***************************************************************************)
(* Results of public calls                                                 *)
(***************************************************************************)
NoError == [what |-> "none", envIndex |-> -1, name |-> ""]

NoArg == ""

\* outcome: "ok", "error" (ESP_CHECK failed or the parser threw: an
\* exception the caller may catch) or "fatal" (CORRADE_INTERNAL_ASSERT
\* failed: the process aborts).  arg: the call's second argument, if any.
Call(op, envIndex, arg, outcome, error) ==
  [op |-> op, envIndex |-> envIndex, arg |-> arg,
   outcome |-> outcome, error |-> error]


(***************************************************************************)
(* scene::SceneManager and scene::SceneNode                                *)
(***************************************************************************)
\* SceneManager::initSceneGraph: a new graph with its root node, at the
\* end of the store; the new graph's id is its index.  `w` is the part of
\* the object's state: [envs, sm, nodes, sensors, rm].
InitSceneGraphID(w) == Len(w.sm)

initSceneGraph(w) ==
  [w EXCEPT !.nodes = Append(w.nodes, NewNode(Len(w.sm), 0)),
            !.sm = Append(w.sm, [rootNode |-> Len(w.nodes) + 1,
                                 instances |-> {}])]

\* SceneManager::getSceneGraph(sceneID)
SceneGraphOf(sm, sceneID) == sm[sceneID + 1]

\* SceneNode::createChild: the new node's id is CreatedChild(w).
CreatedChild(w) == Len(w.nodes) + 1

createChild(w, parent) ==
  [w EXCEPT !.nodes = Append(w.nodes, NewNode(w.nodes[parent].graph, parent))]

(***************************************************************************)
(* sensor::SensorFactory                                                   *)
(***************************************************************************)
\* SensorFactory::createSensors(node, specs): one child node of `node` and
\* one sensor per specification; the returned map is keyed by uuid.
\* sensorMapOf[uuid] is the node id of the sensor.
RECURSIVE createSensors(_, _, _, _)
createSensors(w, parentNode, specs, map) ==
  IF specs = <<>> THEN [w |-> w, sensorMap |-> map]
  ELSE LET uuid == Head(specs)
           id == CreatedChild(w)
           w1 == createChild(w, parentNode)
           w2 == [w1 EXCEPT !.sensors = @ \cup {id}]
           map1 == [u \in DOMAIN map \cup {uuid} |->
                      IF u = uuid THEN id ELSE map[u]]
       IN createSensors(w2, parentNode, Tail(specs), map1)

EmptyMap == [u \in {} |-> 0]

\* A deleted node: its slot in the arena holds nothing any more.
DeletedNode ==
  [graph |-> ID_UNDEFINED, parent |-> 0,
   translation |-> Vec(0), rotation |-> IdentityRotation]

\* SensorFactory::deleteSensor: deletes the sensor's node, and the sensor
\* with it.
deleteSensor(w, id) ==
  [w EXCEPT !.sensors = @ \ {id}, !.nodes[id] = DeletedNode]

(***************************************************************************)
(* gfx::replay::Player                                                     *)
(***************************************************************************)
\* Player(assetCallback, lightCallback): no keyframe, nothing created.
\* assetCallbackEnv is the envIdx captured by the asset callback (line 33);
\* the light callback captures nothing but `this` (line 38).
Player(envIdx) ==
  [assetCallbackEnv |-> envIdx, keyframes_ |-> <<>>, createdInstances_ |-> {}]

getNumKeyframes(player) == Len(player.keyframes_)

\* Player::keyframeFromString
keyframeFromString(ser) ==
  IF ser.root = "keyframe" THEN [ok |-> TRUE, keyframe |-> ser.body]
  ELSE [ok |-> FALSE, keyframe |-> KeyframeC]

\* Player::getUserTransform(name, &translation, &rotation): looks the name
\* up in the held keyframe.
getUserTransformFound(player, name) ==
  /\ player.keyframes_ # <<>>
  /\ name \in DOMAIN player.keyframes_[Len(player.keyframes_)].userTransforms

getUserTransform(player, name) ==
  player.keyframes_[Len(player.keyframes_)].userTransforms[name]

(***************************************************************************)
(* assets::ResourceManager                                                 *)
(***************************************************************************)
NewResourceManager == [alive |-> TRUE, lightSetup |-> "default"]

\* ResourceManager::setLightSetup
setLightSetup(rm, lights) == [rm EXCEPT !.lightSetup = lights]

\* An instance, as the graph holding it and the creation it came from.
Instance(sceneID, creation) ==
  [sceneID |-> sceneID, instanceKey |-> creation.instanceKey]

\* ResourceManager::loadAndCreateRenderAssetInstance(assetInfo, creation,
\* sceneManager, sceneIDs): sceneIDs is <<primary id, semantic id>>; a
\* semantic mesh is instantiated in the semantic graph, any other asset in
\* the primary graph.
InstanceSceneID(creation, sceneIDs) ==
  IF creation.isSemantic THEN sceneIDs[2] ELSE sceneIDs[1]

rmLoadAndCreateRenderAssetInstance(w, creation, sceneIDs) ==
  LET g == InstanceSceneID(creation, sceneIDs)
  IN [w EXCEPT !.sm[g + 1].instances = @ \cup {Instance(g, creation)}]

(***************************************************************************)
(* ReplayBatchRenderer: callbacks                                          *)
(***************************************************************************)
\* CORRADE_INTERNAL_ASSERT(envIndex >= 0 && envIndex < envs_.size())
envIndexInRange(envs, envIndex) == envIndex >= 0 /\ envIndex < Len(envs)

\* Mutant: the two ids are passed in the opposite order.
tempIDs_Swapped(env) == <<env.semanticSceneID_, env.sceneID_>>

\* tempIDs of loadAndCreateRenderAssetInstance (line 170)
tempIDs(env) == <<env.sceneID_, env.semanticSceneID_>>

\* ReplayBatchRenderer::loadAndCreateRenderAssetInstance (lines 161-173).
\* Only the asset callbacks call it, with the envIdx they captured, which
\* is in range.
loadAndCreateRenderAssetInstance(w, envIndex, creation) ==
  rmLoadAndCreateRenderAssetInstance(w, creation, tempIDs(w.envs[envIndex + 1]))

\* Mutant: every callback forwards with environment 0.
assetCallback_FirstEnvironment(w, pos, creation) ==
  loadAndCreateRenderAssetInstance(w, 0, creation)

\* assetCallback (lines 32-37), of the environment whose player is
\* w.envs[pos]: forwards with the captured envIdx.
assetCallback(w, pos, creation) ==
  loadAndCreateRenderAssetInstance(
      w, w.envs[pos].player_.assetCallbackEnv, creation)

\* The scene node the asset callback returns: the instance created.
assetCallbackNode(w, pos, creation) ==
  Instance(InstanceSceneID(creation,
               tempIDs(w.envs[w.envs[pos].player_.assetCallbackEnv + 1])),
           creation)

\* Mutant: the callback does not forward the light setup.
lightCallback_Dropped(w, lights) == w

\* lightCallback (lines 38-40)
lightCallback(w, lights) == [w EXCEPT !.rm = setLightSetup(w.rm, lights)]

(***************************************************************************)
(* gfx::replay::Player: replay                                             *)
(***************************************************************************)
\* Player::clearFrame: the instances this player created are removed from
\* their graphs.
clearFrame(w, pos) ==
  LET mine == w.envs[pos].player_.createdInstances_
  IN [w EXCEPT
        !.sm = [i \in DOMAIN w.sm |->
                  [w.sm[i] EXCEPT !.instances =
                      {x \in @ : x \notin mine}]],
        !.envs[pos].player_.createdInstances_ = {}]

\* Player::applyKeyframe: every creation goes through the asset callback,
\* and the player remembers what it created; then the light setup, if the
\* keyframe carries one, goes through the light callback.
RECURSIVE applyCreations(_, _, _)
applyCreations(w, pos, creations) ==
  IF creations = <<>> THEN w
  ELSE LET c == Head(creations)
           w1 == assetCallback(w, pos, c)
           w2 == [w1 EXCEPT !.envs[pos].player_.createdInstances_ =
                                @ \cup {assetCallbackNode(w, pos, c)}]
       IN applyCreations(w2, pos, Tail(creations))

applyKeyframe(w, pos, keyframe) ==
  LET w1 == applyCreations(w, pos, keyframe.creations)
  IN IF keyframe.lights # "none" THEN lightCallback(w1, keyframe.lights)
     ELSE w1

\* Player::setSingleKeyframe: what the player held and created before is
\* dropped, and the keyframe becomes the only one held and is applied.
setSingleKeyframe(w, pos, keyframe) ==
  LET w1 == clearFrame(w, pos)
      w2 == [w1 EXCEPT !.envs[pos].player_.keyframes_ = <<keyframe>>]
  IN applyKeyframe(w2, pos, keyframe)

\* Player::close: nothing held, nothing created any more.
close(w, pos) ==
  LET w1 == clearFrame(w, pos)
  IN [w1 EXCEPT !.envs[pos].player_.keyframes_ = <<>>]

(***************************************************************************)
(* ReplayBatchRenderer: construction (lines 19-82)                         *)
(***************************************************************************)
Configurations ==
  [numEnvironments : -1 .. MaxEnvironments,
   forceSeparateSemanticSceneGraph : BOOLEAN,
   sensorSpecifications : SensorSpecChoices]

\* Mutant: the flag is ignored.
separateSemanticSceneGraph_Never(cfg) == FALSE

\* Line 42: whether a second scene graph is created for semantics.
separateSemanticSceneGraph(cfg) == cfg.forceSeparateSemanticSceneGraph

\* Mutant: the sensor parent node is created in the semantic graph.
sensorParentSceneID_Semantic(sceneID, semanticSceneID) == semanticSceneID

\* Line 46: the graph whose root gets the sensor parent node.
sensorParentSceneID(sceneID, semanticSceneID) == sceneID

\* Line 52: the environment's player, with the callbacks of lines 32-40.
newPlayer(envIdx) == Player(envIdx)

\* Mutant: the primary scene graph is created by the first iteration
\* only, and the later environments take its id.
constructEnvironment_SharedSceneGraph(w, envIdx, cfg) ==
  LET first == w.sm = <<>>
      sceneID == IF first THEN InitSceneGraphID(w) ELSE 0
      w1 == IF first THEN initSceneGraph(w) ELSE w
      separate == separateSemanticSceneGraph(cfg)
      semanticSceneID == IF separate THEN InitSceneGraphID(w1) ELSE sceneID
      w2 == IF separate THEN initSceneGraph(w1) ELSE w1
      sceneGraph == SceneGraphOf(w2.sm,
                        sensorParentSceneID(sceneID, semanticSceneID))
      parentNode == CreatedChild(w2)
      w3 == createChild(w2, sceneGraph.rootNode)
      made == createSensors(w3, parentNode, cfg.sensorSpecifications,
                            EmptyMap)
  IN [made.w EXCEPT !.envs = Append(@,
        [player_ |-> newPlayer(envIdx),
         sceneID_ |-> sceneID,
         semanticSceneID_ |-> semanticSceneID,
         sensorParentNode_ |-> parentNode,
         sensorMap_ |-> made.sensorMap])]

\* One iteration of the loop of lines 31-57.
constructEnvironment(w, envIdx, cfg) ==
  LET sceneID == InitSceneGraphID(w)
      w1 == initSceneGraph(w)
      separate == separateSemanticSceneGraph(cfg)
      semanticSceneID == IF separate THEN InitSceneGraphID(w1) ELSE sceneID
      w2 == IF separate THEN initSceneGraph(w1) ELSE w1
      sceneGraph == SceneGraphOf(w2.sm,
                        sensorParentSceneID(sceneID, semanticSceneID))
      parentNode == CreatedChild(w2)
      w3 == createChild(w2, sceneGraph.rootNode)
      made == createSensors(w3, parentNode, cfg.sensorSpecifications,
                            EmptyMap)
  IN [made.w EXCEPT !.envs = Append(@,
        [player_ |-> newPlayer(envIdx),
         sceneID_ |-> sceneID,
         semanticSceneID_ |-> semanticSceneID,
         sensorParentNode_ |-> parentNode,
         sensorMap_ |-> made.sensorMap])]

\* The loop of lines 31-57.
RECURSIVE constructEnvironments(_, _, _)
constructEnvironments(w, envIdx, cfg) ==
  IF envIdx < cfg.numEnvironments
  THEN constructEnvironments(constructEnvironment(w, envIdx, cfg),
                             envIdx + 1, cfg)
  ELSE w

\* ReplayBatchRenderer::ReplayBatchRenderer(cfg): the object's state when
\* the constructor returns.  No statement of it rejects a configuration.
Constructed(cfg) ==
  constructEnvironments(
      [envs |-> <<>>, sm |-> <<>>, nodes |-> <<>>, sensors |-> {},
       rm |-> NewResourceManager],
      0, cfg)

\* The object's state as one value, and back.
World ==
  [envs |-> envs_, sm |-> sceneManager_, nodes |-> nodes,
   sensors |-> sensors, rm |-> resourceManager_]

Becomes(w) ==
  /\ envs_' = w.envs
  /\ sceneManager_' = w.sm
  /\ nodes' = w.nodes
  /\ sensors' = w.sensors
  /\ resourceManager_' = w.rm

Init ==
  \E cfg \in Configurations :
    /\ phase = "alive"
    /\ config_ = cfg
    /\ envs_ = Constructed(cfg).envs
    /\ sceneManager_ = Constructed(cfg).sm
    /\ nodes = Constructed(cfg).nodes
    /\ sensors = Constructed(cfg).sensors
    /\ resourceManager_ = Constructed(cfg).rm
    /\ dtorEnvIdx = 0
    /\ lastCall = Call("ReplayBatchRenderer", -1, NoArg, "ok", NoError)

(***************************************************************************)
(* ReplayBatchRenderer: public operations                                  *)
(***************************************************************************)
EnvIndices == -1 .. MaxEnvironments

\* Mutant: the check returns to the caller instead of aborting.
ContractViolation_Returns(op, envIndex) ==
  /\ lastCall' = Call(op, envIndex, NoArg, "ok", NoError)
  /\ UNCHANGED <<phase, config_, envs_, sceneManager_, nodes, sensors,
                 resourceManager_, dtorEnvIdx>>

\* A failed CORRADE_INTERNAL_ASSERT (lines 99, 125, 132, 138, 145, 155):
\* the process aborts; the statements after the assertion never run.
ContractViolation(op, envIndex) ==
  /\ phase' = "aborted"
  /\ lastCall' = Call(op, envIndex, NoArg, "fatal",
                      [what |-> "assertion", envIndex |-> envIndex,
                       name |-> ""])
  /\ UNCHANGED <<config_, envs_, sceneManager_, nodes, sensors,
                 resourceManager_, dtorEnvIdx>>

\* Mutant: the check accepts a player without keyframe.
keyframeIsSet_AtMostOne(player) == getNumKeyframes(player) <= 1

\* Line 101: the condition of the first ESP_CHECK.
keyframeIsSet(player) == getNumKeyframes(player) = 1

\* Mutant: the sensors are visited in the reverse order.
sensorMapOrder_Reversed(sensorMap) ==
  LET up == SelectSeq(SensorUuids, LAMBDA u : u \in DOMAIN sensorMap)
  IN [k \in 1 .. Len(up) |-> up[Len(up) + 1 - k]]

\* std::map iterates in key order (line 105).
sensorMapOrder(sensorMap) ==
  SelectSeq(SensorUuids, LAMBDA u : u \in DOMAIN sensorMap)

\* Mutant: the translation is not applied.
setRotationAndTranslation_RotationOnly(node, translation, rotation) ==
  [node EXCEPT !.rotation = rotation]

\* Lines 118-119: the sensor node takes the rotation and the translation.
setRotationAndTranslation(node, translation, rotation) ==
  [node EXCEPT !.rotation = rotation, !.translation = translation]

\* Mutant: the sensor to move is looked up in the first environment's map.
RECURSIVE sensorTransformsLoop_FirstEnvironmentSensors(_, _, _, _)
sensorTransformsLoop_FirstEnvironmentSensors(w, envIndex, prefix, names) ==
  IF names = <<>> THEN [w |-> w, error |-> NoError]
  ELSE LET env == w.envs[envIndex + 1]
           sensorName == Head(names)
           userName == prefix \o sensorName
           found == getUserTransformFound(env.player_, userName)
       IN IF ~found
          THEN [w |-> w,
                error |-> [what |-> "couldn't find user transform",
                           envIndex |-> envIndex, name |-> userName]]
          ELSE LET t == getUserTransform(env.player_, userName)
                   id == w.envs[1].sensorMap_[sensorName]
                   w1 == [w EXCEPT !.nodes[id] =
                            setRotationAndTranslation(
                                @, t.translation, t.rotation)]
               IN sensorTransformsLoop_FirstEnvironmentSensors(
                      w1, envIndex, prefix, Tail(names))

\* The loop of lines 105-120 over the sensors still to visit.  The second
\* ESP_CHECK throws at the first sensor whose user transform is missing:
\* what was applied before stays applied.
RECURSIVE sensorTransformsLoop(_, _, _, _)
sensorTransformsLoop(w, envIndex, prefix, names) ==
  IF names = <<>> THEN [w |-> w, error |-> NoError]
  ELSE LET env == w.envs[envIndex + 1]
           sensorName == Head(names)
           userName == prefix \o sensorName
           found == getUserTransformFound(env.player_, userName)
       IN IF ~found
          THEN [w |-> w,
                error |-> [what |-> "couldn't find user transform",
                           envIndex |-> envIndex, name |-> userName]]
          ELSE LET t == getUserTransform(env.player_, userName)
                   id == env.sensorMap_[sensorName]
                   w1 == [w EXCEPT !.nodes[id] =
                            setRotationAndTranslation(
                                @, t.translation, t.rotation)]
               IN sensorTransformsLoop(w1, envIndex, prefix, Tail(names))

\* ReplayBatchRenderer::setSensorTransformsFromKeyframe (lines 96-121)
setSensorTransformsFromKeyframe(envIndex, prefix) ==
  LET op == "setSensorTransformsFromKeyframe" IN
  /\ phase = "alive"
  /\ IF ~envIndexInRange(envs_, envIndex)
     THEN ContractViolation(op, envIndex)
     ELSE LET env == envs_[envIndex + 1] IN
          IF ~keyframeIsSet(env.player_)
          THEN /\ lastCall' = Call(op, envIndex, prefix, "error",
                      [what |-> "you have not yet called setEnvironmentKeyframe",
                       envIndex |-> envIndex, name |-> ""])
               /\ UNCHANGED <<phase, config_, envs_, sceneManager_, nodes,
                              sensors, resourceManager_, dtorEnvIdx>>
          ELSE LET r == sensorTransformsLoop(World, envIndex, prefix,
                            sensorMapOrder(env.sensorMap_))
               IN /\ Becomes(r.w)
                  /\ lastCall' = Call(op, envIndex, prefix,
                         IF r.error = NoError THEN "ok" ELSE "error", r.error)
                  /\ UNCHANGED <<phase, config_, dtorEnvIdx>>

\* Mutant: the keyframe is added to those the player holds and applied,
\* without dropping what the player held and created before.
playerTakesKeyframe_Appended(w, pos, keyframe) ==
  applyKeyframe(
      [w EXCEPT !.envs[pos].player_.keyframes_ = Append(@, keyframe)],
      pos, keyframe)

\* Mutant: a player that already holds a keyframe keeps it.
playerTakesKeyframe_KeepsFirst(w, pos, keyframe) ==
  IF getNumKeyframes(w.envs[pos].player_) = 0
  THEN setSingleKeyframe(w, pos, keyframe)
  ELSE w

\* Lines 157-158: the parsed keyframe is handed to the player.
playerTakesKeyframe(w, pos, keyframe) == setSingleKeyframe(w, pos, keyframe)

\* Mutant: the player is closed before the string is parsed.
setEnvironmentKeyframe_ClosesBeforeParsing(envIndex, serKeyframe) ==
  LET op == "setEnvironmentKeyframe" IN
  /\ phase = "alive"
  /\ IF ~envIndexInRange(envs_, envIndex)
     THEN ContractViolation(op, envIndex)
     ELSE LET closed == close(World, envIndex + 1)
              parsed == keyframeFromString(serKeyframe) IN
          IF ~parsed.ok
          THEN /\ Becomes(closed)
               /\ lastCall' = Call(op, envIndex, serKeyframe, "error",
                      [what |-> "parse error", envIndex |-> -1,
                       name |-> ""])
               /\ UNCHANGED <<phase, config_, dtorEnvIdx>>
          ELSE /\ Becomes(setSingleKeyframe(closed, envIndex + 1,
                                            parsed.keyframe))
               /\ lastCall' = Call(op, envIndex, serKeyframe, "ok", NoError)
               /\ UNCHANGED <<phase, config_, dtorEnvIdx>>

\* ReplayBatchRenderer::setEnvironmentKeyframe (lines 152-159).  The
\* argument of setSingleKeyframe is evaluated first: when the parser
\* throws, the player is not called.  The parser does not know envIndex,
\* so its error does not name the environment.
setEnvironmentKeyframe(envIndex, serKeyframe) ==
  LET op == "setEnvironmentKeyframe" IN
  /\ phase = "alive"
  /\ IF ~envIndexInRange(envs_, envIndex)
     THEN ContractViolation(op, envIndex)
     ELSE LET parsed == keyframeFromString(serKeyframe) IN
          IF ~parsed.ok
          THEN /\ lastCall' = Call(op, envIndex, serKeyframe, "error",
                      [what |-> "parse error", envIndex |-> -1,
                       name |-> ""])
               /\ UNCHANGED <<phase, config_, envs_, sceneManager_, nodes,
                              sensors, resourceManager_, dtorEnvIdx>>
          ELSE /\ Becomes(playerTakesKeyframe(World, envIndex + 1,
                                              parsed.keyframe))
               /\ lastCall' = Call(op, envIndex, serKeyframe, "ok", NoError)
               /\ UNCHANGED <<phase, config_, dtorEnvIdx>>

\* The four accessors are const in effect: each checks envIndex and returns
\* a reference into the object's state, which it leaves as it is.  What
\* each returns is given by the operator before it.

\* Line 127
sensorParentNodeReturned(envIndex) == envs_[envIndex + 1].sensorParentNode_

\* ReplayBatchRenderer::getEnvironmentSensorParentNode (lines 123-128)
getEnvironmentSensorParentNode(envIndex) ==
  /\ phase = "alive"
  /\ IF ~envIndexInRange(envs_, envIndex)
     THEN ContractViolation("getEnvironmentSensorParentNode", envIndex)
     ELSE UNCHANGED vars

\* Line 134
sensorsReturned(envIndex) == envs_[envIndex + 1].sensorMap_

\* ReplayBatchRenderer::getEnvironmentSensors (lines 130-135)
getEnvironmentSensors(envIndex) ==
  /\ phase = "alive"
  /\ IF ~envIndexInRange(envs_, envIndex)
     THEN ContractViolation("getEnvironmentSensors", envIndex)
     ELSE UNCHANGED vars

\* Line 140: the graph returned, by its scene id.
sceneGraphReturned(envIndex) == envs_[envIndex + 1].sceneID_

\* ReplayBatchRenderer::getSceneGraph (lines 137-141)
getSceneGraph(envIndex) ==
  /\ phase = "alive"
  /\ IF ~envIndexInRange(envs_, envIndex)
     THEN ContractViolation("getSceneGraph", envIndex)
     ELSE UNCHANGED vars

\* Lines 147-149: the graph returned, by its scene id.
semanticSceneGraphID(env) ==
  IF env.semanticSceneID_ = ID_UNDEFINED THEN env.sceneID_
  ELSE env.semanticSceneID_

semanticSceneGraphReturned(envIndex) ==
  semanticSceneGraphID(envs_[envIndex + 1])

\* ReplayBatchRenderer::getSemanticSceneGraph (lines 143-150)
getSemanticSceneGraph(envIndex) ==
  /\ phase = "alive"
  /\ IF ~envIndexInRange(envs_, envIndex)
     THEN ContractViolation("getSemanticSceneGraph", envIndex)
     ELSE UNCHANGED vars

(***************************************************************************)
(* ReplayBatchRenderer: destruction (lines 84-94)                          *)
(***************************************************************************)
\* Mutant: the loop stops one environment early.
destructorLoopCondition_OffByOne == dtorEnvIdx < config_.numEnvironments - 1

\* Line 86: the loop's condition.
destructorLoopCondition == dtorEnvIdx < config_.numEnvironments

\* Mutant: the sensor loop leaves after its first iteration.
deleteSensors_FirstOnly(w, sensorMap, names) ==
  IF names = <<>> THEN w ELSE deleteSensor(w, sensorMap[Head(names)])

\* Lines 89-91: every sensor of the map is deleted, in the map's order.
RECURSIVE deleteSensors(_, _, _)
deleteSensors(w, sensorMap, names) ==
  IF names = <<>> THEN w
  ELSE deleteSensors(deleteSensor(w, sensorMap[Head(names)]), sensorMap,
                     Tail(names))

\* One iteration of the loop of lines 86-92, for envIdx = dtorEnvIdx.
destructorLoop ==
  /\ phase \in {"alive", "destructing"}
  /\ destructorLoopCondition
  /\ LET pos == dtorEnvIdx + 1
         w1 == close(World, pos)
         sensorMap == envs_[pos].sensorMap_
     IN Becomes(deleteSensors(w1, sensorMap, sensorMapOrder(sensorMap)))
  /\ dtorEnvIdx' = dtorEnvIdx + 1
  /\ phase' = "destructing"
  /\ lastCall' = Call("~ReplayBatchRenderer", -1, NoArg, "ok", NoError)
  /\ UNCHANGED config_

\* Line 93, after the loop: resourceManager_.reset().
destructorResetResourceManager ==
  /\ phase \in {"alive", "destructing"}
  /\ ~destructorLoopCondition
  /\ resourceManager_' = [resourceManager_ EXCEPT !.alive = FALSE]
  /\ phase' = "destroyed"
  /\ lastCall' = Call("~ReplayBatchRenderer", -1, NoArg, "ok", NoError)
  /\ UNCHANGED <<config_, envs_, sceneManager_, nodes, sensors, dtorEnvIdx>>

Next ==
  \/ \E envIndex \in EnvIndices, serKeyframe \in SerKeyframes :
       setEnvironmentKeyframe(envIndex, serKeyframe)
  \/ \E envIndex \in EnvIndices, prefix \in Prefixes :
       setSensorTransformsFromKeyframe(envIndex, prefix)
  \/ \E envIndex \in EnvIndices : getEnvironmentSensorParentNode(envIndex)
  \/ \E envIndex \in EnvIndices : getEnvironmentSensors(envIndex)
  \/ \E envIndex \in EnvIndices : getSceneGraph(envIndex)
  \/ \E envIndex \in EnvIndices : getSemanticSceneGraph(envIndex)
  \/ destructorLoop
  \/ destructorResetResourceManager

Spec == Init /\ [][Next]_vars

(***************************************************************************)
(* Vocabulary of the properties                                            *)
(***************************************************************************)
NumEnvs == Len(envs_)
ValidEnvIndices == 0 .. (NumEnvs - 1)
Env(i) == envs_[i + 1]
HeldKeyframes(i) == Env(i).player_.keyframes_
SensorNames(i) == DOMAIN Env(i).sensorMap_

\* The transform of a node, now and after the step.
NodeXform(n) == Xform(n.translation, n.rotation)
SensorXform(i, name) == NodeXform(nodes[Env(i).sensorMap_[name]])
SensorXformAfter(i, name) == NodeXform(nodes'[Env(i).sensorMap_[name]])

\* Position of a sensor name in std::string order.
NameRank(name) == CHOOSE k \in 1 .. Len(SensorUuids) : SensorUuids[k] = name

\* The instances in the graph(s) of environment i.
EnvInstances(i) ==
  sceneManager_[Env(i).sceneID_ + 1].instances
    \cup sceneManager_[Env(i).semanticSceneID_ + 1].instances

CreationKeys(keyframe) ==
  {keyframe.creations[k].instanceKey : k \in DOMAIN keyframe.creations}

\* The step is a call of `op` that got past the index check.
StepIs(op) ==
  /\ phase = "alive"
  /\ lastCall'.op = op
  /\ lastCall'.envIndex \in ValidEnvIndices

IndexedOps ==
  {"setEnvironmentKeyframe", "setSensorTransformsFromKeyframe",
   "getEnvironmentSensorParentNode", "getEnvironmentSensors",
   "getSceneGraph", "getSemanticSceneGraph"}

(***************************************************************************)
(* C1                                                                      *)
(***************************************************************************)
\* C1: setSensorTransformsFromKeyframe(i, prefix) called while the Player
\* of environment i holds no keyframe fails with the error that names
\* environment i, and changes no node transform of any environment.
C1_NoKeyframeFails ==
  [][ (StepIs("setSensorTransformsFromKeyframe")
         /\ HeldKeyframes(lastCall'.envIndex) = <<>>)
      => /\ lastCall'.outcome = "error"
         /\ lastCall'.error.what
              = "you have not yet called setEnvironmentKeyframe"
         /\ lastCall'.error.envIndex = lastCall'.envIndex
         /\ nodes' = nodes ]_vars

\* The call failed so on an environment without keyframe while another
\* environment holds one.
C1_Witness ==
  /\ lastCall.op = "setSensorTransformsFromKeyframe"
  /\ lastCall.error.what = "you have not yet called setEnvironmentKeyframe"
  /\ HeldKeyframes(lastCall.envIndex) = <<>>
  /\ \E j \in ValidEnvIndices : HeldKeyframes(j) # <<>>

(***************************************************************************)
(* C2                                                                      *)
(***************************************************************************)
AllTransformsRecorded(i, prefix) ==
  /\ Len(HeldKeyframes(i)) = 1
  /\ \A name \in SensorNames(i) :
       (prefix \o name) \in DOMAIN HeldKeyframes(i)[1].userTransforms

\* C2: when the keyframe held by environment i records prefix + sensorName
\* for every sensor of the environment, the call succeeds and every
\* sensor's node has exactly the recorded translation and rotation.
C2_RecordedTransformsApplied ==
  [][ (StepIs("setSensorTransformsFromKeyframe")
         /\ AllTransformsRecorded(lastCall'.envIndex, lastCall'.arg))
      => LET i == lastCall'.envIndex
             prefix == lastCall'.arg
         IN /\ lastCall'.outcome = "ok"
            /\ \A name \in SensorNames(i) :
                 SensorXformAfter(i, name)
                   = HeldKeyframes(i)[1].userTransforms[prefix \o name] ]_vars

\* A successful call on an environment with two
\* sensors, both of which now sit where the keyframe says.
C2_Witness ==
  /\ lastCall.op = "setSensorTransformsFromKeyframe"
  /\ lastCall.outcome = "ok"
  /\ SensorNames(lastCall.envIndex) = {"cam0", "cam1"}
  /\ \A name \in SensorNames(lastCall.envIndex) :
       /\ SensorXform(lastCall.envIndex, name)
            = HeldKeyframes(lastCall.envIndex)[1]
                .userTransforms[lastCall.arg \o name]
       /\ SensorXform(lastCall.envIndex, name)
            # Xform(Vec(0), IdentityRotation)

(***************************************************************************)
(* C3                                                                      *)
(***************************************************************************)
Missing(i, prefix, name) ==
  (prefix \o name) \notin DOMAIN HeldKeyframes(i)[1].userTransforms

\* The first sensor, in name order, whose user transform is missing.
FirstMissing(i, prefix) ==
  CHOOSE name \in SensorNames(i) :
    /\ Missing(i, prefix, name)
    /\ \A other \in SensorNames(i) :
         Missing(i, prefix, other) => NameRank(name) <= NameRank(other)

\* C3: when the held keyframe lacks prefix + sensorName for some sensor,
\* the call fails with the error naming the first missing transform and
\* environment i; the sensors before it in name order have the recorded
\* transform, the failing sensor and those after it keep theirs.
C3_MissingTransformFails ==
  [][ (StepIs("setSensorTransformsFromKeyframe")
         /\ Len(HeldKeyframes(lastCall'.envIndex)) = 1
         /\ ~AllTransformsRecorded(lastCall'.envIndex, lastCall'.arg))
      => LET i == lastCall'.envIndex
             prefix == lastCall'.arg
             first == FirstMissing(i, prefix)
         IN /\ lastCall'.outcome = "error"
            /\ lastCall'.error.what = "couldn't find user transform"
            /\ lastCall'.error.name = prefix \o first
            /\ lastCall'.error.envIndex = i
            /\ \A name \in SensorNames(i) :
                 IF NameRank(name) < NameRank(first)
                 THEN SensorXformAfter(i, name)
                        = HeldKeyframes(i)[1].userTransforms[prefix \o name]
                 ELSE SensorXformAfter(i, name) = SensorXform(i, name)
            /\ \A n \in DOMAIN nodes :
                 (\A name \in SensorNames(i) : Env(i).sensorMap_[name] # n)
                   => nodes'[n] = nodes[n] ]_vars

\* The call failed on "agent_cam1" after "agent_cam0" was applied: cam0
\* has the transform of KeyframeB, cam1 the one it took from KeyframeA.
C3_Witness ==
  /\ lastCall.op = "setSensorTransformsFromKeyframe"
  /\ lastCall.error.what = "couldn't find user transform"
  /\ lastCall.error.name = "agent_cam1"
  /\ SensorXform(lastCall.envIndex, "cam0")
       = KeyframeB.userTransforms["agent_cam0"]
  /\ SensorXform(lastCall.envIndex, "cam1")
       = KeyframeA.userTransforms["cam1"]

(***************************************************************************)
(* C4                                                                      *)
(***************************************************************************)
KeyframeSet(i) ==
  /\ StepIs("setEnvironmentKeyframe")
  /\ lastCall'.envIndex = i
  /\ lastCall'.outcome = "ok"

\* C4: a successful setEnvironmentKeyframe(i, k) leaves the Player of
\* environment i holding exactly one keyframe, the one of that call, and
\* no other call changes what the Player holds: after any number of calls
\* it holds the keyframe of the last successful one, alone.
C4_HoldsLastKeyframeOnly ==
  [][ phase = "alive" =>
        \A i \in ValidEnvIndices :
          IF KeyframeSet(i)
          THEN Env(i).player_.keyframes_'
                 = <<keyframeFromString(lastCall'.arg).keyframe>>
          ELSE phase' = "alive"
                 => Env(i).player_.keyframes_' = HeldKeyframes(i) ]_vars

\* KeyframeB was set on an environment that held KeyframeA before: cam0
\* still has the transform it took from KeyframeA.
C4_Witness ==
  /\ lastCall.op = "setEnvironmentKeyframe"
  /\ lastCall.outcome = "ok"
  /\ lastCall.arg = Serialized(KeyframeB)
  /\ HeldKeyframes(lastCall.envIndex) = <<KeyframeB>>
  /\ "cam0" \in SensorNames(lastCall.envIndex)
  /\ SensorXform(lastCall.envIndex, "cam0") = KeyframeA.userTransforms["cam0"]

(***************************************************************************)
(* C5                                                                      *)
(***************************************************************************)
\* C5: while the object is alive, the graph(s) of every environment hold
\* exactly the instances of the creations of the keyframe its Player
\* holds, K instances for K creations, and none without a keyframe: so
\* after setEnvironmentKeyframe(i, k) they are exactly those of k, with
\* nothing left of an earlier keyframe.
C5_ExactlyTheKeyframesInstances ==
  phase = "alive" =>
    \A i \in ValidEnvIndices :
      IF HeldKeyframes(i) = <<>>
      THEN EnvInstances(i) = {}
      ELSE LET k == HeldKeyframes(i)[Len(HeldKeyframes(i))]
           IN /\ {x.instanceKey : x \in EnvInstances(i)} = CreationKeys(k)
              /\ Cardinality(EnvInstances(i)) = Len(k.creations)
              /\ Len(HeldKeyframes(i)) = 1

\* KeyframeB (one creation) was set on the second environment, which held
\* KeyframeA (two creations) before; the first environment holds KeyframeA.
C5_Witness ==
  /\ lastCall.op = "setEnvironmentKeyframe"
  /\ lastCall.outcome = "ok"
  /\ lastCall.envIndex = 1
  /\ HeldKeyframes(1) = <<KeyframeB>>
  /\ Cardinality(EnvInstances(1)) = 1
  /\ SensorNames(1) = {"cam0", "cam1"}
  /\ SensorXform(1, "cam1") = KeyframeA.userTransforms["cam1"]
  /\ HeldKeyframes(0) = <<KeyframeA>>

(***************************************************************************)
(* C6                                                                      *)
(***************************************************************************)
OutOfRange(envIndex) == envIndex < 0 \/ envIndex >= NumEnvs

Aborts(op, envIndex) ==
  /\ phase' = "aborted"
  /\ lastCall'.op = op
  /\ lastCall'.envIndex = envIndex
  /\ lastCall'.outcome = "fatal"
  /\ UNCHANGED <<envs_, sceneManager_, nodes, sensors, resourceManager_>>

\* C6: a call of one of the six operations with envIndex < 0 or
\* envIndex >= N aborts on its assertion: it does not return, and it
\* leaves every environment record, graph, node and sensor as it was.  The
\* object stays alive only through calls whose index is in range.
C6_OutOfRangeIndexIsFatal ==
  /\ [](phase = "alive" /\ lastCall.op \in IndexedOps
          => lastCall.envIndex \in ValidEnvIndices /\ lastCall.outcome # "fatal")
  /\ [](phase = "aborted"
          => /\ lastCall.op \in IndexedOps
             /\ lastCall.outcome = "fatal"
             /\ OutOfRange(lastCall.envIndex))
  /\ [][ (phase = "alive" /\ lastCall'.op \in IndexedOps
            /\ OutOfRange(lastCall'.envIndex))
           => Aborts(lastCall'.op, lastCall'.envIndex) ]_vars

\* getSemanticSceneGraph(N) aborted on an object with two environments, one
\* of them holding a keyframe.
C6_Witness ==
  /\ phase = "aborted"
  /\ lastCall.op = "getSemanticSceneGraph"
  /\ lastCall.outcome = "fatal"
  /\ NumEnvs = 2
  /\ lastCall.envIndex = NumEnvs
  /\ HeldKeyframes(0) # <<>>

(***************************************************************************)
(* C7                                                                      *)
(***************************************************************************)
PlayerClosed(i) ==
  /\ HeldKeyframes(i) = <<>>
  /\ Env(i).player_.createdInstances_ = {}

SensorsReleased(i) ==
  \A name \in SensorNames(i) : Env(i).sensorMap_[name] \notin sensors

SensorsLive(i) ==
  \A name \in SensorNames(i) : Env(i).sensorMap_[name] \in sensors

\* C7: destruction visits the environments in index order, closing the
\* Player and releasing the sensors of each: the environments below the
\* loop index are cleaned up, those from it on still have their sensors;
\* and the resource manager is released only once every environment is
\* cleaned up.
CleanedUpInOrder ==
  /\ \A i \in ValidEnvIndices :
       IF i < dtorEnvIdx
       THEN PlayerClosed(i) /\ SensorsReleased(i)
       ELSE SensorsLive(i)
  /\ phase = "destructing" => resourceManager_.alive
  /\ ~resourceManager_.alive =>
       /\ phase = "destroyed"
       /\ dtorEnvIdx = NumEnvs
       /\ \A i \in ValidEnvIndices : PlayerClosed(i) /\ SensorsReleased(i)

C7_EnvironmentsBeforeResourceManager ==
  /\ []CleanedUpInOrder
  /\ [][ dtorEnvIdx' # dtorEnvIdx =>
           /\ dtorEnvIdx' = dtorEnvIdx + 1
           /\ resourceManager_.alive /\ resourceManager_'.alive ]_vars

\* Environment 0 is cleaned up, environment 1 still has its keyframe, its
\* instances and its sensors, and the resource manager is alive.
C7_Witness ==
  /\ phase = "destructing"
  /\ NumEnvs = 2
  /\ dtorEnvIdx = 1
  /\ HeldKeyframes(1) = <<KeyframeA>>
  /\ EnvInstances(1) # {}
  /\ SensorNames(1) = {"cam0", "cam1"}
  /\ SensorsLive(1) /\ SensorsReleased(0)
  /\ resourceManager_.alive

(***************************************************************************)
(* C8                                                                      *)
(***************************************************************************)
JustConstructed == lastCall.op = "ReplayBatchRenderer"

\* C8: construction with numEnvironments <= 0 fails with an error, so no
\* object with zero environment records exists.
C8_NonPositiveCountRejected ==
  (JustConstructed /\ config_.numEnvironments <= 0)
    => lastCall.outcome = "error" /\ phase # "alive"

(***************************************************************************)
(* C9                                                                      *)
(***************************************************************************)
\* C9: in every state of the object's life, getSceneGraph(i) and
\* getSemanticSceneGraph(i) return the same graph for every environment i
\* when the object was constructed with forceSeparateSemanticSceneGraph
\* false, and two different graphs when it was constructed with it true.
C9_SemanticGraphChosenAtConstruction ==
  \A i \in ValidEnvIndices :
    /\ sceneGraphReturned(i) \in 0 .. (Len(sceneManager_) - 1)
    /\ semanticSceneGraphReturned(i) \in 0 .. (Len(sceneManager_) - 1)
    /\ IF config_.forceSeparateSemanticSceneGraph
       THEN sceneGraphReturned(i) # semanticSceneGraphReturned(i)
       ELSE sceneGraphReturned(i) = semanticSceneGraphReturned(i)

\* Two environments with separate semantic graphs, after keyframes were
\* set and sensor transforms applied.
C9_Witness ==
  /\ phase = "alive"
  /\ config_.forceSeparateSemanticSceneGraph
  /\ NumEnvs = 2
  /\ lastCall.op = "setSensorTransformsFromKeyframe"
  /\ lastCall.outcome = "ok"
  /\ HeldKeyframes(0) # <<>> /\ HeldKeyframes(1) # <<>>
  /\ sceneGraphReturned(1) # semanticSceneGraphReturned(1)

(***************************************************************************)
(* C10                                                                     *)
(***************************************************************************)
SpecifiedNames == {config_.sensorSpecifications[k] :
                     k \in DOMAIN config_.sensorSpecifications}

\* C10: when the constructor returns, there is one record per configured
\* environment, and for each: its graph(s) hold no instance, its Player
\* holds no keyframe, its sensor map has exactly the names of the sensor
\* specifications, each a live sensor on a child node of the sensor parent
\* node, which is a child of the root of the environment's primary graph.
C10_ConstructedEnvironments ==
  JustConstructed =>
    /\ config_.numEnvironments >= 0 => NumEnvs = config_.numEnvironments
    /\ \A i \in ValidEnvIndices :
         LET parent == sensorParentNodeReturned(i)
             primary == SceneGraphOf(sceneManager_, sceneGraphReturned(i))
         IN /\ EnvInstances(i) = {}
            /\ HeldKeyframes(i) = <<>>
            /\ DOMAIN sensorsReturned(i) = SpecifiedNames
            /\ \A name \in SpecifiedNames :
                 /\ sensorsReturned(i)[name] \in sensors
                 /\ nodes[sensorsReturned(i)[name]].parent = parent
                 /\ \A other \in SpecifiedNames :
                      sensorsReturned(i)[other] = sensorsReturned(i)[name]
                        => other = name
            /\ nodes[parent].parent = primary.rootNode
            /\ nodes[parent].graph = sceneGraphReturned(i)
            /\ nodes[primary.rootNode].parent = 0
            /\ nodes[primary.rootNode].graph = sceneGraphReturned(i)

\* Two environments, two sensors each, separate semantic graphs.
C10_Witness ==
  /\ JustConstructed
  /\ phase = "alive"
  /\ NumEnvs = 2
  /\ config_.forceSeparateSemanticSceneGraph
  /\ SensorNames(0) = {"cam0", "cam1"} /\ SensorNames(1) = {"cam0", "cam1"}

(***************************************************************************)
(* C11                                                                     *)
(***************************************************************************)
\* The ids the constructor gave environment i.
ConstructedEnv(i) == Constructed(config_).envs[i + 1]

\* C11: while the object lives, the number of environment records is the
\* configured numEnvironments, and every record still has the scene-graph
\* id, the semantic scene-graph id and the sensor parent node that the
\* constructor gave it, whatever calls were made since.
C11_RecordsFixedAtConfiguredCount ==
  phase = "alive" =>
    /\ NumEnvs = config_.numEnvironments
    /\ \A i \in ValidEnvIndices :
         /\ Env(i).sceneID_ = ConstructedEnv(i).sceneID_
         /\ Env(i).semanticSceneID_ = ConstructedEnv(i).semanticSceneID_
         /\ Env(i).sensorParentNode_ = ConstructedEnv(i).sensorParentNode_

(***************************************************************************)
(* C12                                                                     *)
(***************************************************************************)
\* The instances outstanding in the resource manager's scene graphs.
OutstandingInstances ==
  UNION {sceneManager_[g].instances : g \in DOMAIN sceneManager_}

\* C12: once the object is destroyed, no sensor is live and no scene graph
\* holds an asset instance: every sensor of every environment's sensor map
\* is released and no Player has an instance it created left.
C12_NothingOutstandingAfterDestruction ==
  phase = "destroyed" =>
    /\ sensors = {}
    /\ OutstandingInstances = {}
    /\ \A i \in ValidEnvIndices :
         /\ SensorsReleased(i)
         /\ Env(i).player_.createdInstances_ = {}

\* Two environments with two sensors each are destroyed; the light setup
\* is the one KeyframeA brought, so an environment held a keyframe with
\* asset creations when destruction began.
C12_Witness ==
  /\ phase = "destroyed"
  /\ NumEnvs = 2
  /\ SensorNames(0) = {"cam0", "cam1"} /\ SensorNames(1) = {"cam0", "cam1"}
  /\ config_.forceSeparateSemanticSceneGraph
  /\ resourceManager_.lightSetup = "lightsA"

(***************************************************************************)
(* C13                                                                     *)
(***************************************************************************)
\* The instances a cache given the id pair <<primary, semantic>> puts in
\* graph g for the creations of a keyframe.
PlacedIn(g, keyframe, primary, semantic) ==
  {Instance(g, keyframe.creations[n]) :
     n \in {m \in DOMAIN keyframe.creations :
              g = (IF keyframe.creations[m].isSemantic THEN semantic
                   ELSE primary)}}

\* C13: the asset callback of environment i's Player forwards with index
\* i, and a successful setEnvironmentKeyframe(i, k) leaves in environment
\* i's primary and semantic graph exactly the instances a cache given the
\* pair <<i's primary id, i's semantic id>> places there for k's
\* creations, and leaves the instances of every other graph as they were.
C13_InstancesInOwnGraphsOnly ==
  /\ [](\A i \in ValidEnvIndices : Env(i).player_.assetCallbackEnv = i)
  /\ [][ \A i \in ValidEnvIndices :
           KeyframeSet(i) =>
             LET k == keyframeFromString(lastCall'.arg).keyframe
                 primary == Env(i).sceneID_
                 semantic == Env(i).semanticSceneID_
             IN \A g \in 0 .. (Len(sceneManager_) - 1) :
                  sceneManager_'[g + 1].instances =
                    IF g \in {primary, semantic}
                    THEN PlacedIn(g, k, primary, semantic)
                    ELSE sceneManager_[g + 1].instances ]_vars

\* KeyframeA was set on the second of two environments with separate
\* semantic graphs: its plain creation is in the primary graph, its
\* semantic creation in the semantic graph, and the first environment
\* still has the instance of its KeyframeB.
C13_Witness ==
  /\ phase = "alive"
  /\ NumEnvs = 2
  /\ config_.forceSeparateSemanticSceneGraph
  /\ lastCall.op = "setEnvironmentKeyframe"
  /\ lastCall.envIndex = 1
  /\ lastCall.outcome = "ok"
  /\ lastCall.arg = Serialized(KeyframeA)
  /\ Env(1).sceneID_ # Env(1).semanticSceneID_
  /\ Cardinality(sceneManager_[Env(1).sceneID_ + 1].instances) = 1
  /\ Cardinality(sceneManager_[Env(1).semanticSceneID_ + 1].instances) = 1
  /\ HeldKeyframes(0) = <<KeyframeB>>
  /\ Cardinality(EnvInstances(0)) = 1

(***************************************************************************)
(* C14                                                                     *)
(***************************************************************************)
\* The call before this step was a successful setEnvironmentKeyframe on
\* environment i.
KeyframeJustSet(i) ==
  /\ lastCall.op = "setEnvironmentKeyframe"
  /\ lastCall.outcome = "ok"
  /\ lastCall.envIndex = i

\* C14: setSensorTransformsFromKeyframe(i, prefix) called right after a
\* successful setEnvironmentKeyframe(i, k2) is decided by k2 alone,
\* whatever environment i held before and whatever the other environments
\* hold: it succeeds exactly when k2 records prefix + name for every
\* sensor, a sensor that moves takes the transform k2 records, and the
\* name reported missing is one that k2 does not record.
C14_ReadsLatestKeyframe ==
  [][ (StepIs("setSensorTransformsFromKeyframe")
         /\ KeyframeJustSet(lastCall'.envIndex))
      => LET i == lastCall'.envIndex
             prefix == lastCall'.arg
             k2 == keyframeFromString(lastCall.arg).keyframe
             recorded == {name \in SensorNames(i) :
                            (prefix \o name) \in DOMAIN k2.userTransforms}
         IN /\ lastCall'.outcome = "ok" <=> recorded = SensorNames(i)
            /\ lastCall'.outcome = "ok" =>
                 \A name \in SensorNames(i) :
                   SensorXformAfter(i, name)
                     = k2.userTransforms[prefix \o name]
            /\ lastCall'.outcome = "error" =>
                 /\ lastCall'.error.what = "couldn't find user transform"
                 /\ \E name \in SensorNames(i) \ recorded :
                      lastCall'.error.name = prefix \o name
            /\ \A name \in SensorNames(i) :
                 SensorXformAfter(i, name) # SensorXform(i, name)
                   => /\ name \in recorded
                      /\ SensorXformAfter(i, name)
                           = k2.userTransforms[prefix \o name] ]_vars

\* The call on an environment holding KeyframeB reports "cam0" missing:
\* KeyframeA, which the environment held before and from which cam0 took
\* its transform, records "cam0", and so does the KeyframeA held by the
\* other environment.
C14_Witness ==
  /\ phase = "alive"
  /\ NumEnvs = 2
  /\ lastCall.op = "setSensorTransformsFromKeyframe"
  /\ lastCall.outcome = "error"
  /\ lastCall.error.name = "cam0"
  /\ lastCall.envIndex \in ValidEnvIndices
  /\ HeldKeyframes(lastCall.envIndex) = <<KeyframeB>>
  /\ SensorXform(lastCall.envIndex, "cam0") = KeyframeA.userTransforms["cam0"]
  /\ HeldKeyframes(1 - lastCall.envIndex) = <<KeyframeA>>

(***************************************************************************)
(* C15                                                                     *)
(***************************************************************************)
\* The step leaves the keyframe held by environment j and the transforms
\* of its sensors as they were.
ReplayAndSensorsUnchanged(j) ==
  /\ Env(j).player_.keyframes_' = HeldKeyframes(j)
  /\ \A name \in SensorNames(j) :
       SensorXformAfter(j, name) = SensorXform(j, name)

\* C15: setEnvironmentKeyframe(i, ...) and
\* setSensorTransformsFromKeyframe(i, ...), whether they succeed or fail,
\* leave the held keyframe and the sensor transforms of every other
\* environment unchanged; setSensorTransformsFromKeyframe(i, ...) also
\* leaves environment i's held keyframe and the instances of its graphs
\* unchanged.
C15_OtherEnvironmentsUntouched ==
  [][ (StepIs("setEnvironmentKeyframe")
         \/ StepIs("setSensorTransformsFromKeyframe"))
      => LET i == lastCall'.envIndex
         IN /\ \A j \in ValidEnvIndices \ {i} : ReplayAndSensorsUnchanged(j)
            /\ lastCall'.op = "setSensorTransformsFromKeyframe" =>
                 /\ envs_'[i + 1].player_ = Env(i).player_
                 /\ sceneManager_' = sceneManager_ ]_vars

\* The call on the second environment, which holds KeyframeB, moved its
\* cam0 and failed on cam1; the first environment holds KeyframeA and both
\* its sensors sit where KeyframeA put them.
C15_Witness ==
  /\ phase = "alive"
  /\ NumEnvs = 2
  /\ lastCall.op = "setSensorTransformsFromKeyframe"
  /\ lastCall.envIndex = 1
  /\ lastCall.error.name = "agent_cam1"
  /\ HeldKeyframes(1) = <<KeyframeB>>
  /\ EnvInstances(1) # {}
  /\ SensorXform(1, "cam0") = KeyframeB.userTransforms["agent_cam0"]
  /\ HeldKeyframes(0) = <<KeyframeA>>
  /\ SensorXform(0, "cam0") = KeyframeA.userTransforms["cam0"]
  /\ SensorXform(0, "cam1") = KeyframeA.userTransforms["cam1"]

(***************************************************************************)
(* C16                                                                     *)
(***************************************************************************)
\* The step is a successful setEnvironmentKeyframe on some environment.
SomeKeyframeSet ==
  /\ lastCall'.op = "setEnvironmentKeyframe"
  /\ lastCall'.outcome = "ok"

\* C16: the one light setup of the resource manager is the light setup
\* of the last successfully set keyframe that carried one, on whichever
\* environment: a successful setEnvironmentKeyframe whose keyframe carries
\* a light setup makes it the global one, one whose keyframe carries none
\* leaves the global one as it was, and no other call changes it.
C16_GlobalLightSetupFollowsLastKeyframe ==
  [][ phase = "alive" =>
        LET carried == keyframeFromString(lastCall'.arg).keyframe.lights
        IN resourceManager_'.lightSetup =
             IF SomeKeyframeSet /\ carried # "none" THEN carried
             ELSE resourceManager_.lightSetup ]_vars

\* KeyframeC, set on the first environment, brought the light setup;
\* KeyframeB, without one, was then set on the second environment, which
\* had held KeyframeA with another light setup before.
C16_Witness ==
  /\ phase = "alive"
  /\ NumEnvs = 2
  /\ lastCall.op = "setEnvironmentKeyframe"
  /\ lastCall.outcome = "ok"
  /\ lastCall.envIndex = 1
  /\ lastCall.arg = Serialized(KeyframeB)
  /\ HeldKeyframes(0) = <<KeyframeC>>
  /\ HeldKeyframes(1) = <<KeyframeB>>
  /\ SensorNames(1) = {"cam0", "cam1"}
  /\ SensorXform(1, "cam0") = KeyframeA.userTransforms["cam0"]
  /\ resourceManager_.lightSetup = "lightsC"

(***************************************************************************)
(* C17                                                                     *)
(***************************************************************************)
\* C17: setEnvironmentKeyframe(i, s) with a malformed s fails with a
\* parse error and leaves the object as it was: the keyframe held by the
\* Player of environment i, the instances of the scene graphs, the
\* transforms of the sensor nodes and the global light setup are
\* unchanged, and the object stays usable, so that every later call finds
\* the state it would have found without the failed call.
C17_MalformedKeyframeChangesNothing ==
  [][ (StepIs("setEnvironmentKeyframe")
         /\ lastCall'.arg = MalformedKeyframe)
      => /\ lastCall'.outcome = "error"
         /\ lastCall'.error.what = "parse error"
         /\ phase' = "alive"
         /\ envs_' = envs_
         /\ sceneManager_' = sceneManager_
         /\ nodes' = nodes
         /\ sensors' = sensors
         /\ resourceManager_' = resourceManager_ ]_vars

\* The failed call on an environment that holds KeyframeA: its instances,
\* the transform cam0 took from KeyframeA and KeyframeA's light setup are
\* still there.
C17_Witness ==
  /\ phase = "alive"
  /\ lastCall.op = "setEnvironmentKeyframe"
  /\ lastCall.outcome = "error"
  /\ lastCall.error.what = "parse error"
  /\ lastCall.envIndex \in ValidEnvIndices
  /\ HeldKeyframes(lastCall.envIndex) = <<KeyframeA>>
  /\ Cardinality(EnvInstances(lastCall.envIndex)) = 2
  /\ "cam0" \in SensorNames(lastCall.envIndex)
  /\ SensorXform(lastCall.envIndex, "cam0") = KeyframeA.userTransforms["cam0"]
  /\ resourceManager_.lightSetup = "lightsA"

(***************************************************************************)
(* C18                                                                     *)
(***************************************************************************)
\* The scene-graph ids of environment i's record.
SceneIDs(i) == {Env(i).sceneID_, Env(i).semanticSceneID_}

\* The graphs the two graph accessors return for environment i.
GraphsReturned(i) == {sceneGraphReturned(i), semanticSceneGraphReturned(i)}

\* C18: two different environments have no scene-graph id (primary or
\* semantic) in common, and the two graph accessors return no graph for
\* one environment that they return for another; the environments use
\* NumEnvs graphs in all without the separate-semantic flag and
\* 2 * NumEnvs with it, each of them a graph of the scene manager.
C18_SceneGraphsPairwiseDistinct ==
  /\ \A i, j \in ValidEnvIndices :
       i # j => /\ SceneIDs(i) \cap SceneIDs(j) = {}
                /\ GraphsReturned(i) \cap GraphsReturned(j) = {}
  /\ LET used == UNION {GraphsReturned(i) : i \in ValidEnvIndices}
     IN /\ used = UNION {SceneIDs(i) : i \in ValidEnvIndices}
        /\ used \subseteq 0 .. (Len(sceneManager_) - 1)
        /\ Cardinality(used) =
             IF config_.forceSeparateSemanticSceneGraph THEN 2 * NumEnvs
             ELSE NumEnvs

\* Two environments with separate semantic graphs, four graphs in all,
\* after keyframes were set on both.
C18_Witness ==
  /\ NumEnvs = 2
  /\ config_.forceSeparateSemanticSceneGraph
  /\ Cardinality(GraphsReturned(0) \cup GraphsReturned(1)) = 4
  /\ HeldKeyframes(0) = <<KeyframeA>>
  /\ HeldKeyframes(1) = <<KeyframeB>>

====
